---------------------------- MODULE Spec2Model ----------------------------
(***************************************************************************)
(* A model of simple-lamport (src/index.js): the SimpleLamport class, its  *)
(* constructor-selected codecs, key generation (random and from a seed),    *)
(* sign and verify.                                                          *)
(*                                                                           *)
(* Representation.  A JavaScript string is a sequence of character codes    *)
(* (all text handled here is ASCII), a Buffer is a sequence of bytes, and a  *)
(* JavaScript value is a record tagged by "type".  A thrown exception is the *)
(* value Throw(name).                                                        *)
(*                                                                           *)
(* Scale.  SHA-256 (the external hash.js primitive) is replaced by a        *)
(* deterministic stand-in digest of DigestBytes bytes, and the number of    *)
(* key and signature entries is the number of bits of that digest, as 256   *)
(* is the number of bits of SHA-256.  The stand-in is not collision free;   *)
(* properties that need collision freedom state it as a hypothesis.         *)
(***************************************************************************)
EXTENDS Integers, Sequences, FiniteSets, TLC

\* Bytes of the stand-in digest (32 in the program: SHA-256).
DigestBytes == 1

\* src/index.js:4   const KEY_SIG_ENTRY_COUNT = 256;   (= 8 * 32)
KEY_SIG_ENTRY_COUNT == 8 * DigestBytes

\* src/index.js:12  this.hashElementByteSize = options.hashElementByteSize || 32;
hashElementByteSize == DigestBytes

-----------------------------------------------------------------------------
(* JavaScript values *)

Undefined == [type |-> "undefined"]
Null == [type |-> "null"]
String(s) == [type |-> "string", chars |-> s]
Buffer(b) == [type |-> "buffer", bytes |-> b]
Array(a) == [type |-> "array", items |-> a]
Number(n) == [type |-> "number", num |-> n]
Boolean(b) == [type |-> "boolean", bool |-> b]
Throw(e) == [type |-> "throw", error |-> e]

IsThrow(v) == v.type = "throw"
IsNullish(v) == v.type \in {"undefined", "null"}

\* Sequence helpers.  Flatten concatenates the sequences ss[lo..hi]; it
\* splits the range in two so that the evaluation stays shallow.
RECURSIVE FlattenRange(_, _, _)
FlattenRange(ss, lo, hi) ==
  IF lo > hi THEN <<>>
  ELSE IF lo = hi THEN ss[lo]
  ELSE FlattenRange(ss, lo, (lo + hi) \div 2) \o FlattenRange(ss, (lo + hi) \div 2 + 1, hi)

Flatten(ss) == FlattenRange(ss, 1, Len(ss))

MinOf(S) == CHOOSE m \in S : \A n \in S : m <= n

\* A sequence given as a function on 1..n, as the tuple of its values.
Tuple(f) == f \o <<>>

Min(a, b) == IF a < b THEN a ELSE b

\* buf.slice(start, end) and str.slice(start, end) for 0 <= start <= end:
\* the range is clamped to the length.  (0-based, end exclusive.)
Slice(s, start, end) ==
  IF start >= Len(s) THEN <<>> ELSE SubSeq(s, start + 1, Min(end, Len(s)))

-----------------------------------------------------------------------------
(* Number to text: the template literal `${n}` of an integer *)

RECURSIVE DecimalDigits(_)
DecimalDigits(n) ==
  IF n < 10 THEN <<48 + n>> ELSE Append(DecimalDigits(n \div 10), 48 + (n % 10))

NumberToString(n) == IF n < 0 THEN <<45>> \o DecimalDigits(-n) ELSE DecimalDigits(n)

-----------------------------------------------------------------------------
(* Node's Buffer text encodings: hex and base64 *)

HexChar(d) == IF d < 10 THEN 48 + d ELSE 87 + d

\* The value of a hex digit, or -1.
HexVal(c) ==
  IF c >= 48 /\ c <= 57 THEN c - 48
  ELSE IF c >= 97 /\ c <= 102 THEN c - 87
  ELSE IF c >= 65 /\ c <= 70 THEN c - 55
  ELSE -1

\* buf.toString('hex')
BufferToHex(bytes) ==
  Flatten([i \in 1..Len(bytes) |-> <<HexChar(bytes[i] \div 16), HexChar(bytes[i] % 16)>>])

\* Buffer.from(str, 'hex'): pairs of digits, cut at the first pair that is
\* not two hex digits; a trailing odd character is dropped.
BufferFromHex(chars) ==
  LET pairs == Len(chars) \div 2
      bad == {i \in 1..pairs : HexVal(chars[2 * i - 1]) < 0 \/ HexVal(chars[2 * i]) < 0}
      count == IF bad = {} THEN pairs ELSE MinOf(bad) - 1
  IN Tuple([i \in 1..count |-> 16 * HexVal(chars[2 * i - 1]) + HexVal(chars[2 * i])])

Base64Char(v) ==
  IF v < 26 THEN 65 + v
  ELSE IF v < 52 THEN 71 + v
  ELSE IF v < 62 THEN v - 4
  ELSE IF v = 62 THEN 43
  ELSE 47

\* The value of a base64 character ('-' and '_' are accepted for '+' and
\* '/'), or -1.
Base64Val(c) ==
  IF c >= 65 /\ c <= 90 THEN c - 65
  ELSE IF c >= 97 /\ c <= 122 THEN c - 71
  ELSE IF c >= 48 /\ c <= 57 THEN c + 4
  ELSE IF c = 43 \/ c = 45 THEN 62
  ELSE IF c = 47 \/ c = 95 THEN 63
  ELSE -1

\* buf.toString('base64'): three bytes to four characters, '=' padded.
\* Character j (from 0) of group g (from 0) reads bytes 3g+1 .. 3g+3.
BufferToBase64(bytes) ==
  LET n == Len(bytes)
      byte(i) == IF i <= n THEN bytes[i] ELSE 0
      char(g, j) ==
        IF j = 0 THEN Base64Char(byte(3 * g + 1) \div 4)
        ELSE IF j = 1 THEN Base64Char((byte(3 * g + 1) % 4) * 16 + byte(3 * g + 2) \div 16)
        ELSE IF j = 2 THEN
          IF 3 * g + 2 > n THEN 61
          ELSE Base64Char((byte(3 * g + 2) % 16) * 4 + byte(3 * g + 3) \div 64)
        ELSE IF 3 * g + 3 > n THEN 61 ELSE Base64Char(byte(3 * g + 3) % 64)
  IN Tuple([k \in 1..(4 * ((n + 2) \div 3)) |-> char((k - 1) \div 4, (k - 1) % 4)])

\* The sextets Buffer.from(str, 'base64') reads: it stops at the first '='
\* and skips every other character outside the alphabet.
IsBase64Char(c) == Base64Val(c) >= 0

Base64Sextets(chars) ==
  LET pads == {i \in 1..Len(chars) : chars[i] = 61}
      before == IF pads = {} THEN chars ELSE SubSeq(chars, 1, MinOf(pads) - 1)
      kept == SelectSeq(before, IsBase64Char)
  IN Tuple([i \in 1..Len(kept) |-> Base64Val(kept[i])])

\* The bytes of a run of sextets: byte k (from 0) starts at bit 8k; four
\* sextets give three bytes, a final group of three gives two, of two one.
BytesFromSextets(s) ==
  LET byte(k) ==
        LET q == (8 * k) \div 6 + 1
            r == (8 * k) % 6
        IN IF r = 0 THEN s[q] * 4 + s[q + 1] \div 16
           ELSE IF r = 2 THEN (s[q] % 16) * 16 + s[q + 1] \div 4
           ELSE (s[q] % 4) * 64 + s[q + 1]
  IN Tuple([k \in 1..((6 * Len(s)) \div 8) |-> byte(k - 1)])

BufferFromBase64(chars) == BytesFromSextets(Base64Sextets(chars))

\* The encodings of Buffer this model knows; any other name is unknown to
\* Buffer, which throws a TypeError on it.
Encodings == {"base64", "hex"}

\* buf.toString(encoding)
BufferToString(bytes, encoding) ==
  IF encoding = "hex" THEN String(BufferToHex(bytes))
  ELSE IF encoding = "base64" THEN String(BufferToBase64(bytes))
  ELSE Throw("TypeError")

\* Buffer.from(value, encoding)
BufferFrom(value, encoding) ==
  IF value.type = "string" THEN
    IF encoding = "hex" THEN Buffer(BufferFromHex(value.chars))
    ELSE IF encoding = "base64" THEN Buffer(BufferFromBase64(value.chars))
    ELSE Throw("TypeError")
  ELSE IF value.type = "buffer" THEN Buffer(value.bytes)
  ELSE IF value.type = "array" THEN
    Buffer(Tuple([i \in 1..Len(value.items) |->
                    IF value.items[i].type = "number" THEN value.items[i].num % 256 ELSE 0]))
  ELSE Throw("TypeError")

-----------------------------------------------------------------------------
(* The hash: hash.js sha256 and the method sha256 of the class *)

\* hash.js utils.toArray(msg): a string gives its bytes, a Buffer its bytes,
\* an array its elements as numbers; undefined, null and '' give nothing.
HashInput(message) ==
  IF message.type = "string" THEN message.chars
  ELSE IF message.type = "buffer" THEN message.bytes
  ELSE IF message.type = "array" THEN
    Tuple([i \in 1..Len(message.items) |->
             IF message.items[i].type = "number" THEN message.items[i].num % 256 ELSE 0])
  ELSE <<>>

\* The stand-in compression.  Each byte b takes the state h to
\* (33 h + b + 1) mod 256^DigestBytes, from the state 5381.  The state
\* reached from 0 over bytes[lo..hi] is computed by halves, which is the
\* same recurrence evaluated to a shallow depth, with every product kept
\* below 2^31.
Modulus == 256 ^ DigestBytes

RECURSIVE MulMod(_, _)
MulMod(a, b) ==
  IF a = 0 THEN 0 ELSE (MulMod(a \div 16, b) * 16 + (a % 16) * b) % Modulus

RECURSIVE Power33(_)
Power33(n) ==
  IF n = 0 THEN 1 % Modulus
  ELSE IF n % 2 = 0 THEN LET half == Power33(n \div 2) IN MulMod(half, half)
  ELSE MulMod(33 % Modulus, Power33(n - 1))

\* 33^n mod 256^DigestBytes for the lengths hashed here.
Pow33 == [n \in 0..255 |-> Power33(n)]

DigestStep(h, byte) == (h * 33 + byte + 1) % Modulus

RECURSIVE DigestRange(_, _, _)
DigestRange(bytes, lo, hi) ==
  IF lo > hi THEN 0
  ELSE IF lo = hi THEN DigestStep(0, bytes[lo])
  ELSE IF lo + 1 = hi THEN DigestStep(DigestStep(0, bytes[lo]), bytes[hi])
  ELSE IF lo + 2 = hi THEN
    DigestStep(DigestStep(DigestStep(0, bytes[lo]), bytes[lo + 1]), bytes[hi])
  ELSE IF lo + 3 = hi THEN
    DigestStep(DigestStep(DigestStep(DigestStep(0, bytes[lo]), bytes[lo + 1]),
                          bytes[lo + 2]), bytes[hi])
  ELSE LET mid == (lo + hi) \div 2
       IN (MulMod(DigestRange(bytes, lo, mid), Pow33[hi - mid])
           + DigestRange(bytes, mid + 1, hi)) % Modulus

DigestFold(bytes) ==
  (MulMod(5381 % Modulus, Pow33[Len(bytes)]) + DigestRange(bytes, 1, Len(bytes))) % Modulus

\* hash.sha256().update(message).digest(): the stand-in digest, DigestBytes
\* bytes, most significant first.
Sha256Digest(bytes) ==
  LET h == DigestFold(bytes)
  IN Tuple([k \in 1..DigestBytes |-> (h \div (256 ^ (DigestBytes - k))) % 256])

\* sha256(message, encoding); encoding "" is an omitted argument.
sha256(message, encoding) ==
  LET shasum == BufferToHex(Sha256Digest(HashInput(message)))
  IN IF encoding = "hex" THEN String(shasum)
     ELSE BufferToString(BufferFromHex(shasum), IF encoding = "" THEN "base64" ELSE encoding)

\* this.hash: the constructor installs this.sha256 when no hashFunction
\* option is given.
hash(this, message, encoding) == sha256(message, encoding)

\* The bits of one byte, `byte >> (7 - i) & 1` for i = 0..7.
\* ByteBits with the least significant bit first.
ByteBitsLsbFirst(byte) == Tuple([i \in 1..8 |-> (byte \div (2 ^ (i - 1))) % 2])

ByteBits(byte) == Tuple([i \in 1..8 |-> (byte \div (2 ^ (8 - i))) % 2])

convertEncodedStringToBitArray(this, encodedString) ==
  LET buffer == BufferFrom(encodedString, this.hashEncoding)
  IN IF IsThrow(buffer) THEN buffer
     ELSE Array(Flatten([k \in 1..Len(buffer.bytes) |->
                           [i \in 1..8 |-> Number(ByteBits(buffer.bytes[k])[i])]]))

-----------------------------------------------------------------------------
(* JavaScript: property access, conversion to text, JSON *)

\* value[i] for an integer i >= 0.
Index(value, i) ==
  IF IsNullish(value) THEN Throw("TypeError")
  ELSE IF value.type = "array" THEN
    IF i < Len(value.items) THEN value.items[i + 1] ELSE Undefined
  ELSE IF value.type = "string" THEN
    IF i < Len(value.chars) THEN String(<<value.chars[i + 1]>>) ELSE Undefined
  ELSE IF value.type = "buffer" THEN
    IF i < Len(value.bytes) THEN Number(value.bytes[i + 1]) ELSE Undefined
  ELSE Undefined

\* String(value): the text a value converts to (an array joins its elements
\* with commas, null and undefined elements giving nothing).
RECURSIVE ToText(_, _)
ToText(value, nested) ==
  IF value.type = "string" THEN value.chars
  ELSE IF value.type = "null" THEN IF nested THEN <<>> ELSE <<110, 117, 108, 108>>
  ELSE IF value.type = "undefined" THEN
    IF nested THEN <<>> ELSE <<117, 110, 100, 101, 102, 105, 110, 101, 100>>
  ELSE IF value.type = "number" THEN NumberToString(value.num)
  ELSE IF value.type = "boolean" THEN
    IF value.bool THEN <<116, 114, 117, 101>> ELSE <<102, 97, 108, 115, 101>>
  ELSE IF value.type = "buffer" THEN value.bytes
  ELSE Flatten([i \in 1..Len(value.items) |->
                  ToText(value.items[i], TRUE)
                    \o (IF i < Len(value.items) THEN <<44>> ELSE <<>>)])

\* JSON.stringify of strings, numbers, null, undefined (null inside an
\* array) and arrays of them.
RECURSIVE JSONstringify(_)
JSONstringify(value) ==
  IF value.type = "string" THEN
    <<34>> \o Flatten([i \in 1..Len(value.chars) |->
                         IF value.chars[i] \in {34, 92} THEN <<92, value.chars[i]>>
                         ELSE <<value.chars[i]>>]) \o <<34>>
  ELSE IF value.type = "array" THEN
    <<91>> \o Flatten([i \in 1..Len(value.items) |->
                         JSONstringify(value.items[i])
                           \o (IF i < Len(value.items) THEN <<44>> ELSE <<>>)]) \o <<93>>
  ELSE IF value.type = "number" THEN NumberToString(value.num)
  ELSE <<110, 117, 108, 108>>

\* JSON.parse on the grammar of arrays, strings without escapes, null and
\* unsigned integers, without white space; any other text is a SyntaxError.
\* Every text this model hands to it is inside that grammar or is no JSON
\* at all (the strings of keys and signatures are base64 or hex text).
\*
\* ParseRange parses s[lo..hi] as one value.  An array is split at its
\* commas that are outside strings and outside nested brackets.
ParseFail == [type |-> "fail"]

\* The commas of s[lo..hi] that separate the elements of the array whose
\* brackets enclose that range.
TopCommas(s, lo, hi) ==
  LET quotes == {j \in lo..hi : s[j] = 34}
      outside(i) == Cardinality({q \in quotes : q < i}) % 2 = 0
      opens == {j \in lo..hi : s[j] = 91 /\ outside(j)}
      closes == {j \in lo..hi : s[j] = 93 /\ outside(j)}
      depth(i) == Cardinality({j \in opens : j < i}) - Cardinality({j \in closes : j < i})
  IN {i \in lo..hi : s[i] = 44 /\ depth(i) = 0 /\ outside(i)}

\* The k-th smallest element of a set of integers.
Nth(S, k) == CHOOSE m \in S : Cardinality({n \in S : n < m}) = k - 1

IsDigits(s, lo, hi) ==
  /\ lo <= hi /\ hi - lo < 6
  /\ \A j \in lo..hi : s[j] >= 48 /\ s[j] <= 57
  /\ (s[lo] = 48 => lo = hi)

RECURSIVE DigitsValue(_, _, _)
DigitsValue(s, lo, hi) ==
  IF lo > hi THEN 0 ELSE 10 * DigitsValue(s, lo, hi - 1) + (s[hi] - 48)

RECURSIVE ParseRange(_, _, _)
ParseRange(s, lo, hi) ==
  IF lo > hi THEN ParseFail
  ELSE IF s[lo] = 34 THEN
    IF hi > lo /\ s[hi] = 34 /\ \A j \in (lo + 1)..(hi - 1) : s[j] >= 32 /\ s[j] \notin {34, 92}
    THEN String(SubSeq(s, lo + 1, hi - 1))
    ELSE ParseFail
  ELSE IF s[lo] = 91 THEN
    IF hi = lo \/ s[hi] # 93 THEN ParseFail
    ELSE IF hi = lo + 1 THEN Array(<<>>)
    ELSE LET commas == TopCommas(s, lo + 1, hi - 1)
             count == Cardinality(commas) + 1
             from(k) == IF k = 1 THEN lo + 1 ELSE Nth(commas, k - 1) + 1
             to(k) == IF k = count THEN hi - 1 ELSE Nth(commas, k) - 1
             items == Tuple([k \in 1..count |-> ParseRange(s, from(k), to(k))])
         IN IF \E k \in 1..count : items[k] = ParseFail THEN ParseFail ELSE Array(items)
  ELSE IF hi = lo + 3 /\ SubSeq(s, lo, hi) = <<110, 117, 108, 108>> THEN Null
  ELSE IF IsDigits(s, lo, hi) THEN Number(DigitsValue(s, lo, hi))
  ELSE ParseFail

\* JSON.parse(value): the argument is first converted to text.
JSONparse(value) ==
  LET text == ToText(value, FALSE)
      r == ParseRange(text, 1, Len(text))
  IN IF r = ParseFail THEN Throw("SyntaxError") ELSE r

-----------------------------------------------------------------------------
(* The codecs the constructor installs (src/index.js 21-82, 187-231) *)

\* The first thrown value of a sequence of values, or Undefined.
FirstThrow(values) ==
  LET thrown == {i \in 1..Len(values) : IsThrow(values[i])}
  IN IF thrown = {} THEN Undefined ELSE values[MinOf(thrown)]

\* Buffer.concat of Buffer.from(item, hashEncoding) over the items.
ConcatItems(this, items) ==
  LET buffers == Tuple([i \in 1..Len(items) |-> BufferFrom(items[i], this.hashEncoding)])
      thrown == FirstThrow(buffers)
  IN IF IsThrow(thrown) THEN thrown
     ELSE Buffer(Flatten([i \in 1..Len(buffers) |-> buffers[i].bytes]))

_encodeKeyToBuffer(this, rawKey) ==
  ConcatItems(this, Flatten([k \in 1..Len(rawKey.items) |-> rawKey.items[k].items]))

_encodeSignatureToBuffer(this, rawSignature) == ConcatItems(this, rawSignature.items)

\* encoded.slice(byteOffset, byteOffset + n).toString(this.hashEncoding):
\* on a Buffer the bytes in the encoding; on a string the substring itself
\* (String.prototype.toString takes no encoding); on an array the joined
\* elements; on null, undefined and values without slice a TypeError.
SliceToString(this, encoded, byteOffset) ==
  IF encoded.type = "buffer" THEN
    BufferToString(Slice(encoded.bytes, byteOffset, byteOffset + hashElementByteSize),
                   this.hashEncoding)
  ELSE IF encoded.type = "string" THEN
    String(Slice(encoded.chars, byteOffset, byteOffset + hashElementByteSize))
  ELSE IF encoded.type = "array" THEN
    String(ToText(Array(Slice(encoded.items, byteOffset, byteOffset + hashElementByteSize)),
                  FALSE))
  ELSE Throw("TypeError")

\* The entries first .. first + KEY_SIG_ENTRY_COUNT - 1 of an encoded buffer.
DecodeEntries(this, encoded, first) ==
  LET items == Tuple([i \in 1..KEY_SIG_ENTRY_COUNT |->
                        SliceToString(this, encoded, (first + i - 1) * hashElementByteSize)])
      thrown == FirstThrow(items)
  IN IF IsThrow(thrown) THEN thrown ELSE Array(items)

_decodeKeyFromBuffer(this, encodedKey) ==
  LET keyFirstPart == DecodeEntries(this, encodedKey, 0)
      keySecondPart == DecodeEntries(this, encodedKey, KEY_SIG_ENTRY_COUNT)
  IN IF IsThrow(keyFirstPart) THEN keyFirstPart
     ELSE IF IsThrow(keySecondPart) THEN keySecondPart
     ELSE Array(<<keyFirstPart, keySecondPart>>)

_decodeSignatureFromBuffer(this, encodedSignature) ==
  DecodeEntries(this, encodedSignature, 0)

encodeKey(this, rawKey) ==
  IF this.keyFormat = "object" THEN rawKey
  ELSE IF this.keyFormat = "json" THEN String(JSONstringify(rawKey))
  ELSE IF this.keyFormat = "buffer" THEN _encodeKeyToBuffer(this, rawKey)
  ELSE LET buffer == _encodeKeyToBuffer(this, rawKey)
       IN IF IsThrow(buffer) THEN buffer ELSE BufferToString(buffer.bytes, this.keyFormat)

decodeKey(this, encodedKey) ==
  IF this.keyFormat = "object" THEN encodedKey
  ELSE IF this.keyFormat = "json" THEN JSONparse(encodedKey)
  ELSE IF this.keyFormat = "buffer" THEN _decodeKeyFromBuffer(this, encodedKey)
  ELSE LET keyBuffer == BufferFrom(encodedKey, this.keyFormat)
       IN IF IsThrow(keyBuffer) THEN keyBuffer ELSE _decodeKeyFromBuffer(this, keyBuffer)

encodeSignature(this, rawSignature) ==
  IF this.signatureFormat = "object" THEN rawSignature
  ELSE IF this.signatureFormat = "json" THEN String(JSONstringify(rawSignature))
  ELSE IF this.signatureFormat = "buffer" THEN _encodeSignatureToBuffer(this, rawSignature)
  ELSE LET buffer == _encodeSignatureToBuffer(this, rawSignature)
       IN IF IsThrow(buffer) THEN buffer
          ELSE BufferToString(buffer.bytes, this.signatureFormat)

decodeSignature(this, encodedSignature) ==
  IF this.signatureFormat = "object" THEN encodedSignature
  ELSE IF this.signatureFormat = "json" THEN JSONparse(encodedSignature)
  ELSE IF this.signatureFormat = "buffer" THEN
    _decodeSignatureFromBuffer(this, encodedSignature)
  ELSE LET signatureBuffer == BufferFrom(encodedSignature, this.signatureFormat)
       IN IF IsThrow(signatureBuffer) THEN signatureBuffer
          ELSE _decodeSignatureFromBuffer(this, signatureBuffer)

\* The constructor: each option left out (or falsy) takes its default.
\* No option is validated; a format other than 'object', 'json' and
\* 'buffer' is kept as the name of a Buffer encoding.
constructor(options) ==
  [keyFormat |-> IF options.keyFormat = "" THEN "base64" ELSE options.keyFormat,
   signatureFormat |->
     IF options.signatureFormat = "" THEN "base64" ELSE options.signatureFormat,
   hashEncoding |-> IF options.hashEncoding = "" THEN "base64" ELSE options.hashEncoding]

-----------------------------------------------------------------------------
(* Key generation, sign and verify *)

\* String.prototype.toString(encoding): the string itself, whatever the
\* argument.
StringToString(string, encoding) == string

\* `${seed}-${i}`
SeedLabel(seed, i) == seed \o <<45>> \o NumberToString(i)

generateRandomArrayFromSeed(this, length, seed) ==
  Array(Tuple([i \in 1..length |->
     StringToString(hash(this, String(SeedLabel(seed, i - 1)), ""), this.hashEncoding)]))

\* DefaultIndex without the default.
DefaultIndexNone(index) == index

\* The index as generateKeysFromSeed uses it: `if (index == null) index = 0`.
DefaultIndex(index) == IF IsNullish(index) THEN Number(0) ELSE index

\* SideSeed with one letter for both sides.
SideSeedOneLetter(seed, index, side) ==
  seed \o <<45>> \o ToText(DefaultIndex(index), FALSE) \o <<45, 97>>

\* `${seed}-${index}-a` and `${seed}-${index}-b`
SideSeed(seed, index, side) ==
  seed \o <<45>> \o ToText(DefaultIndex(index), FALSE) \o <<45, side>>

\* privateKeyPart.map((encodedString) => this.hash(encodedString, this.hashEncoding))
HashPart(this, privateKeyPart) ==
  Array(Tuple([i \in 1..Len(privateKeyPart.items) |->
                 hash(this, privateKeyPart.items[i], this.hashEncoding)]))

\* publicKey = privateKey.map((privateKeyPart) => ...)
PublicKeyOf(this, privateKey) ==
  Array(Tuple([k \in 1..Len(privateKey.items) |-> HashPart(this, privateKey.items[k])]))

\* The rest of generateKeysFromSeed and of generateKeys, from the local
\* privateKey on: the local publicKey and the returned
\* { privateKey: this.encodeKey(privateKey), publicKey: this.encodeKey(publicKey) }.
\* An exception of encodeKey is the result of the call.
KeyPair(this, privateKey) ==
  LET publicKey == PublicKeyOf(this, privateKey)
      encodedPrivate == encodeKey(this, privateKey)
      encodedPublic == encodeKey(this, publicKey)
  IN [privateKeyRaw |-> privateKey,
      publicKeyRaw |-> publicKey,
      result |-> IF IsThrow(encodedPrivate) THEN encodedPrivate
                 ELSE IF IsThrow(encodedPublic) THEN encodedPublic
                 ELSE [type |-> "keys", privateKey |-> encodedPrivate,
                       publicKey |-> encodedPublic]]

\* The local privateKey of generateKeysFromSeed.
SeedPrivateKey(this, seed, index) ==
  Array(<<generateRandomArrayFromSeed(this, KEY_SIG_ENTRY_COUNT, SideSeed(seed, index, 97)),
          generateRandomArrayFromSeed(this, KEY_SIG_ENTRY_COUNT, SideSeed(seed, index, 98))>>)

\* generateKeysFromSeed(seed, index): its locals and its result.
generateKeysFromSeed(this, seed, index) == KeyPair(this, SeedPrivateKey(this, seed, index))

\* generateRandomArray: randomBytes(elementBytes).toString(this.hashEncoding),
\* length times; random[i] are the bytes the i-th call of randomBytes gives.
generateRandomArray(this, length, random) ==
  Array(Tuple([i \in 1..length |-> BufferToString(random[i], this.hashEncoding)]))

\* The local privateKey of generateKeys.
RandomPrivateKey(this, random) ==
  Array(<<generateRandomArray(this, KEY_SIG_ENTRY_COUNT, random[1]),
          generateRandomArray(this, KEY_SIG_ENTRY_COUNT, random[2])>>)

\* generateKeys(): its locals and its result.
generateKeys(this, random) == KeyPair(this, RandomPrivateKey(this, random))

\* messageBitArray.map((bit, index) => privateKeyRaw[bit][index])
SelectEntries(privateKeyRaw, messageBitArray) ==
  LET picked == Tuple([i \in 1..Len(messageBitArray.items) |->
                         LET part == Index(privateKeyRaw, messageBitArray.items[i].num)
                         IN IF IsThrow(part) THEN part ELSE Index(part, i - 1)])
      thrown == FirstThrow(picked)
  IN IF IsThrow(thrown) THEN thrown ELSE Array(picked)

\* sign(message, privateKey): its local signature and its result; an
\* exception of decodeKey, of the map or of encodeSignature is the result.
sign(this, message, privateKey) ==
  LET privateKeyRaw == decodeKey(this, privateKey)
      messageHash == sha256(message, this.hashEncoding)
      messageBitArray == convertEncodedStringToBitArray(this, messageHash)
      signature == IF IsThrow(privateKeyRaw) THEN privateKeyRaw
                   ELSE SelectEntries(privateKeyRaw, messageBitArray)
  IN [signatureRaw |-> signature,
      result |-> IF IsThrow(signature) THEN signature ELSE encodeSignature(this, signature)]

\* One call of the callback of messageBitArray.every: TRUE, FALSE, or the
\* exception it throws.
VerifyEntry(this, signatureRaw, publicKeyRaw, bit, index) ==
  LET item == Index(signatureRaw, index)
      signatureItemHash == hash(this, item, this.hashEncoding)
      part == Index(publicKeyRaw, bit)
      targetPublicKeyItem == IF IsThrow(part) THEN part ELSE Index(part, index)
  IN IF IsThrow(item) THEN item
     ELSE IF IsThrow(targetPublicKeyItem) THEN targetPublicKeyItem
     ELSE Boolean(signatureItemHash = targetPublicKeyItem)

\* Every with the loop starting at the second position.
EveryFromSecond(this, signatureRaw, publicKeyRaw, messageBitArray) ==
  LET call(index) == VerifyEntry(this, signatureRaw, publicKeyRaw,
                                 messageBitArray.items[index + 1].num, index)
      stops == {index \in 1..(Len(messageBitArray.items) - 1) : call(index) # Boolean(TRUE)}
  IN IF stops = {} THEN Boolean(TRUE) ELSE call(MinOf(stops))

\* Every as messageBitArray.some would be: TRUE as soon as one comparison
\* succeeds.
EverySome(this, signatureRaw, publicKeyRaw, messageBitArray) ==
  LET call(index) == VerifyEntry(this, signatureRaw, publicKeyRaw,
                                 messageBitArray.items[index + 1].num, index)
  IN Boolean(\E index \in 0..(Len(messageBitArray.items) - 1) : call(index) = Boolean(TRUE))

\* messageBitArray.every(...): the result of the first call of the callback
\* that is not TRUE (a FALSE, or an exception, which ends the loop), and
\* TRUE when there is none.
Every(this, signatureRaw, publicKeyRaw, messageBitArray) ==
  LET call(index) == VerifyEntry(this, signatureRaw, publicKeyRaw,
                                 messageBitArray.items[index + 1].num, index)
      stops == {index \in 0..(Len(messageBitArray.items) - 1) : call(index) # Boolean(TRUE)}
  IN IF stops = {} THEN Boolean(TRUE) ELSE call(MinOf(stops))

verify(this, message, signature, publicKey) ==
  LET signatureRaw == decodeSignature(this, signature)
      publicKeyRaw == decodeKey(this, publicKey)
      messageHash == sha256(message, this.hashEncoding)
      messageBitArray == convertEncodedStringToBitArray(this, messageHash)
  IN IF IsThrow(signatureRaw) \/ IsThrow(publicKeyRaw) THEN Boolean(FALSE)
     ELSE Every(this, signatureRaw, publicKeyRaw, messageBitArray)

-----------------------------------------------------------------------------
(* The inputs of the model *)

\* Format options given to the constructor: "" is an option left out,
\* "xml" a name that is neither a format of the class nor a Buffer encoding.
FormatOptions == {"", "object", "json", "buffer", "base64", "hex", "xml"}
HashEncodingOptions == {"", "hex"}

\* Seeds as generateSeed makes them, hex text: one of 16 bytes, one of 32.
SeedOfBytes(n, byte) == BufferToHex(Tuple([i \in 1..n |-> byte]))
Seeds == {SeedOfBytes(16, 171), SeedOfBytes(32, 0)}

\* The index argument: left out, or an integer.
Indexes == {Undefined, Number(0), Number(12)}

\* What the random source may give, as randomBytes(hashElementByteSize)
\* for each side and entry: the same bytes on both sides, or one of two
\* patterns that differ between the sides.
RandomTape(t) ==
  Tuple([side \in 1..2 |-> Tuple([i \in 1..KEY_SIG_ENTRY_COUNT |->
     Tuple([k \in 1..hashElementByteSize |->
              IF t = 0 THEN (i * 29 + k * 3) % 256
              ELSE (t * 89 + side * 131 + i * 29 + k * 3) % 256])])])
RandomTapes == {RandomTape(t) : t \in 0..2}

\* Messages: "", "hi", "hello world"
Messages == {String(<<>>), String(<<104, 105>>),
             String(<<104, 101, 108, 108, 111, 32, 119, 111, 114, 108, 100>>)}

-----------------------------------------------------------------------------
(* The state: one instance and the calls made on it.  The class keeps no   *)
(* state besides its configuration, so a behaviour follows one key pair:   *)
(* it is generated, signs one message, and the signature is verified.       *)

VARIABLES
  instance,    \* the constructed SimpleLamport, or NoInstance
  keyCall,     \* the call of generateKeys / generateKeysFromSeed and its result
  signCall,    \* the call of sign and its result
  verifyCall,  \* the call of verify and its result
  otherCall    \* a call of generateKeysFromSeed on a second instance

vars == <<instance, keyCall, signCall, verifyCall, otherCall>>

NoInstance == [type |-> "none"]
NoCall == [op |-> "none"]

Init ==
  /\ instance = NoInstance
  /\ keyCall = NoCall
  /\ signCall = NoCall
  /\ verifyCall = NoCall
  /\ otherCall = NoCall

\* new SimpleLamport(options)
Construct(options) ==
  /\ instance = NoInstance
  /\ instance' = constructor(options)
  /\ UNCHANGED <<keyCall, signCall, verifyCall, otherCall>>

Constructed == instance # NoInstance

\* instance.generateKeys()
GenerateKeys(random) ==
  /\ Constructed
  /\ keyCall = NoCall
  /\ \E call \in {generateKeys(instance, random)} :
        keyCall' = [op |-> "generateKeys",
                    privateKeyRaw |-> call.privateKeyRaw,
                    publicKeyRaw |-> call.publicKeyRaw,
                    result |-> call.result]
  /\ UNCHANGED <<instance, signCall, verifyCall, otherCall>>

\* instance.generateKeysFromSeed(seed, index)
GenerateKeysFromSeed(seed, index) ==
  /\ Constructed
  /\ keyCall = NoCall
  /\ \E call \in {generateKeysFromSeed(instance, seed, index)} :
        keyCall' = [op |-> "generateKeysFromSeed", seed |-> seed, index |-> index,
                    privateKeyRaw |-> call.privateKeyRaw,
                    publicKeyRaw |-> call.publicKeyRaw,
                    result |-> call.result]
  /\ UNCHANGED <<instance, signCall, verifyCall, otherCall>>

HaveKeys == keyCall # NoCall /\ keyCall.result.type = "keys"

\* instance.sign(message, privateKey) with the generated private key
Sign(message) ==
  /\ HaveKeys
  /\ signCall = NoCall
  /\ \E call \in {sign(instance, message, keyCall.result.privateKey)} :
        signCall' = [op |-> "sign", message |-> message,
                     privateKey |-> keyCall.result.privateKey,
                     signatureRaw |-> call.signatureRaw,
                     result |-> call.result]
  /\ UNCHANGED <<instance, keyCall, verifyCall, otherCall>>

HaveSignature == signCall # NoCall /\ ~IsThrow(signCall.result)

\* instance.verify(message, signature, publicKey) with the signature sign
\* returned and the generated public key, for the signed or another message
Verify(message) ==
  /\ HaveSignature
  /\ verifyCall = NoCall
  /\ verifyCall' = [op |-> "verify", input |-> "signed", message |-> message,
                    signature |-> signCall.result,
                    publicKey |-> keyCall.result.publicKey,
                    result |-> verify(instance, message, signCall.result,
                                      keyCall.result.publicKey)]
  /\ UNCHANGED <<instance, keyCall, signCall, otherCall>>

\* The signature sign returned, as its holder reads it.
SignedEntries == decodeSignature(instance, signCall.result)

\* The bit of the digest of a message at a position (from 0), most
\* significant bit of each byte first.
DigestBit(message, position) ==
  (Sha256Digest(HashInput(message))[position \div 8 + 1] \div (2 ^ (7 - (position % 8)))) % 2

\* The block put in place of an entry of a signature: the block of the
\* other side of the private key at that position, or the entry of the
\* public key the signature entry hashes to.
TamperBlock(position, source) ==
  IF source = "privateKey"
    THEN keyCall.privateKeyRaw.items[2 - DigestBit(signCall.message, position)].items[position + 1]
    ELSE keyCall.publicKeyRaw.items[DigestBit(signCall.message, position) + 1].items[position + 1]

TamperSources == {"privateKey", "publicKey"}

Positions == 0..(KEY_SIG_ENTRY_COUNT - 1)

\* instance.verify(message, signature', publicKey) where (message, signature,
\* publicKey) verifies and signature' is signature with the entry at a
\* position replaced by a block
VerifyTampered ==
  /\ HaveSignature
  /\ verifyCall = NoCall
  /\ verify(instance, signCall.message, signCall.result, keyCall.result.publicKey)
       = Boolean(TRUE)
  /\ \E signedEntries \in {SignedEntries} :
       /\ ~IsThrow(signedEntries)
       /\ \E position \in Positions, source \in TamperSources :
            \E block \in {TamperBlock(position, source)} :
              \E tampered \in {encodeSignature(instance,
                                 Array([signedEntries.items EXCEPT ![position + 1] = block]))} :
                /\ ~IsThrow(tampered)
                /\ verifyCall' = [op |-> "verify", input |-> "tampered",
                                  message |-> signCall.message,
                                  position |-> position, block |-> block,
                                  signature |-> tampered,
                                  publicKey |-> keyCall.result.publicKey,
                                  result |-> verify(instance, signCall.message, tampered,
                                                    keyCall.result.publicKey)]
  /\ UNCHANGED <<instance, keyCall, signCall, otherCall>>

\* A value cut short: a Buffer without its last byte, a string without its
\* last character, an array without its last element.
Truncated(value) ==
  IF value.type = "buffer" /\ value.bytes # <<>>
    THEN Buffer(SubSeq(value.bytes, 1, Len(value.bytes) - 1))
  ELSE IF value.type = "string" /\ value.chars # <<>>
    THEN String(SubSeq(value.chars, 1, Len(value.chars) - 1))
  ELSE IF value.type = "array" /\ value.items # <<>>
    THEN Array(SubSeq(value.items, 1, Len(value.items) - 1))
  ELSE value

InputKinds == {"valid", "null", "undefined", "empty", "short", "oneSide", "truncated"}

\* The signature handed to verify: the signed one, null, undefined, the
\* encoding of a signature with no entry or with the last entry missing, or
\* the signed one cut short.
SignatureInput(kind) ==
  CASE kind = "valid" -> signCall.result
    [] kind = "null" -> Null
    [] kind = "undefined" -> Undefined
    [] kind = "empty" -> encodeSignature(instance, Array(<<>>))
    [] kind = "truncated" -> Truncated(signCall.result)
    [] OTHER -> encodeSignature(instance, Truncated(signCall.signatureRaw))

\* The public key handed to verify: the generated one, null, undefined, the
\* encoding of a key with no side, with one side, or with the last entry of
\* each side missing, or the generated one cut short.
PublicKeyInput(kind) ==
  CASE kind = "valid" -> keyCall.result.publicKey
    [] kind = "null" -> Null
    [] kind = "undefined" -> Undefined
    [] kind = "empty" -> encodeKey(instance, Array(<<>>))
    [] kind = "oneSide" -> encodeKey(instance, Truncated(keyCall.publicKeyRaw))
    [] kind = "truncated" -> Truncated(keyCall.result.publicKey)
    [] OTHER -> encodeKey(instance, Array(<<Truncated(keyCall.publicKeyRaw.items[1]),
                                            Truncated(keyCall.publicKeyRaw.items[2])>>))

\* instance.verify(message, signature, publicKey) with the signed message
\* and a malformed signature or a malformed public key
VerifyMalformed(signatureKind, publicKeyKind) ==
  /\ HaveSignature
  /\ verifyCall = NoCall
  /\ signatureKind # "valid" \/ publicKeyKind # "valid"
  /\ \E signature \in {SignatureInput(signatureKind)} :
       \E publicKey \in {PublicKeyInput(publicKeyKind)} :
         /\ ~IsThrow(signature)
         /\ ~IsThrow(publicKey)
         /\ verifyCall' = [op |-> "verify", input |-> "malformed",
                           message |-> signCall.message,
                           signatureKind |-> signatureKind,
                           publicKeyKind |-> publicKeyKind,
                           signature |-> signature, publicKey |-> publicKey,
                           result |-> verify(instance, signCall.message,
                                             signature, publicKey)]
  /\ UNCHANGED <<instance, keyCall, signCall, otherCall>>

\* generateKeysFromSeed(seed, index) on a second instance, constructed with
\* the configuration of the first, with the seed of the first call
GenerateKeysFromSeedOther(index) ==
  /\ keyCall # NoCall
  /\ keyCall.op = "generateKeysFromSeed"
  /\ otherCall = NoCall
  /\ \E other \in {constructor([keyFormat |-> instance.keyFormat,
                                signatureFormat |-> instance.signatureFormat,
                                hashEncoding |-> instance.hashEncoding])} :
       \E call \in {generateKeysFromSeed(other, keyCall.seed, index)} :
         otherCall' = [op |-> "generateKeysFromSeed", instance |-> other,
                       seed |-> keyCall.seed, index |-> index,
                       privateKeyRaw |-> call.privateKeyRaw,
                       publicKeyRaw |-> call.publicKeyRaw,
                       result |-> call.result]
  /\ UNCHANGED <<instance, keyCall, signCall, verifyCall>>

\* The index argument where two key pairs of one seed are compared.
SeedIndexes == Indexes \cup {Number(1), Number(2), Number(255)}

Lifecycle ==
  \/ \E kf \in FormatOptions, sf \in FormatOptions, he \in HashEncodingOptions :
       Construct([keyFormat |-> kf, signatureFormat |-> sf, hashEncoding |-> he])
  \/ \E random \in RandomTapes : GenerateKeys(random)
  \/ \E seed \in Seeds, index \in Indexes : GenerateKeysFromSeed(seed, index)
  \/ \E message \in Messages : Sign(message)

\* One key pair, one signature, verified against the signed or another message.
Next ==
  \/ Lifecycle
  \/ \E message \in Messages : Verify(message)

Spec == Init /\ [][Next]_vars

\* The same with a tampered signature verified.
NextTamper ==
  \/ Lifecycle
  \/ VerifyTampered

SpecTamper == Init /\ [][NextTamper]_vars

\* The same with malformed input to verify.
NextMalformed ==
  \/ Lifecycle
  \/ \E signatureKind \in InputKinds, publicKeyKind \in InputKinds :
       VerifyMalformed(signatureKind, publicKeyKind)

SpecMalformed == Init /\ [][NextMalformed]_vars

\* Keys generated from a seed, on two instances of one configuration.
NextSeed ==
  \/ \E kf \in FormatOptions, sf \in FormatOptions, he \in HashEncodingOptions :
       Construct([keyFormat |-> kf, signatureFormat |-> sf, hashEncoding |-> he])
  \/ \E seed \in Seeds, index \in SeedIndexes : GenerateKeysFromSeed(seed, index)
  \/ \E index \in SeedIndexes : GenerateKeysFromSeedOther(index)

SpecSeed == Init /\ [][NextSeed]_vars

-----------------------------------------------------------------------------
(* Properties *)

\* The blocks of a structured key, both sides.
BlocksOf(key) ==
  {key.items[side].items[i] : side \in 1..2, i \in 1..KEY_SIG_ENTRY_COUNT}

\* The hash of the instance has no collision on a set of blocks: as many
\* hashes as blocks.
CollisionFree(this, blocks) ==
  Cardinality({hash(this, block, this.hashEncoding) : block \in blocks})
    = Cardinality(blocks)

\* The digest of a message, as bytes.
MessageDigest(message) == Sha256Digest(HashInput(message))

\* C1: for every key pair produced by generateKeys or generateKeysFromSeed,
\* in every combination of key format, signature format and hash encoding,
\* verify(message, sign(message, privateKey), publicKey) is true.
C1_SignVerifyRoundTrip ==
  (verifyCall # NoCall /\ verifyCall.input = "signed"
     /\ verifyCall.message = signCall.message)
    => verifyCall.result = Boolean(TRUE)

\* C3: generateKeysFromSeed fails with a validation error, and returns no
\* key pair, when the seed decodes to fewer than 32 bytes.
C3_ShortSeedRejected ==
  (keyCall # NoCall /\ keyCall.op = "generateKeysFromSeed"
     /\ Len(BufferFromHex(keyCall.seed)) < 32)
    => IsThrow(keyCall.result)

\* C4: when the digests of two messages differ, the two blocks of the
\* private key differ at every position and the hash has no collision on
\* the blocks of the private key, the signature of one message does not
\* verify for the other: verify returns false.
C4_OtherMessageRejected ==
  (/\ verifyCall # NoCall
   /\ verifyCall.input = "signed"
   /\ MessageDigest(verifyCall.message) # MessageDigest(signCall.message)
   /\ \A i \in 1..KEY_SIG_ENTRY_COUNT :
        keyCall.privateKeyRaw.items[1].items[i] # keyCall.privateKeyRaw.items[2].items[i]
   /\ CollisionFree(instance, BlocksOf(keyCall.privateKeyRaw)))
    => verifyCall.result = Boolean(FALSE)

\* A signature verified against a message of another digest that shares
\* bits with the digest of the signed one, under a key whose sides differ
\* and whose blocks do not collide, and rejected.
C4_Witness ==
  /\ verifyCall # NoCall
  /\ verifyCall.input = "signed"
  /\ MessageDigest(verifyCall.message) # MessageDigest(signCall.message)
  /\ \E i \in Positions :
       DigestBit(verifyCall.message, i) = DigestBit(signCall.message, i)
  /\ \A i \in 1..KEY_SIG_ENTRY_COUNT :
       keyCall.privateKeyRaw.items[1].items[i] # keyCall.privateKeyRaw.items[2].items[i]
  /\ CollisionFree(instance, BlocksOf(keyCall.privateKeyRaw))
  /\ verify(instance, signCall.message, signCall.result, keyCall.result.publicKey)
       = Boolean(TRUE)
  /\ verifyCall.result = Boolean(FALSE)

\* C6: decoding the encoding of a key or of a signature gives it back, for
\* every key and signature the library produces, in every format and hash
\* encoding.
C6_CodecRoundTrip ==
  /\ HaveKeys =>
       /\ decodeKey(instance, keyCall.result.privateKey) = keyCall.privateKeyRaw
       /\ decodeKey(instance, keyCall.result.publicKey) = keyCall.publicKeyRaw
  /\ HaveSignature =>
       decodeSignature(instance, signCall.result) = signCall.signatureRaw

\* C8: an unsupported key format or signature format raises a configuration
\* error at construction, so no instance with an unrecognized format reaches
\* generateKeys, sign or verify.
C8_UnsupportedFormatRejected ==
  keyCall # NoCall =>
    /\ instance.keyFormat \in {"object", "json", "buffer"} \cup Encodings
    /\ instance.signatureFormat \in {"object", "json", "buffer"} \cup Encodings

C2_MalformedInputReturnsFalse ==
  (verifyCall # NoCall /\ verifyCall.input = "malformed")
    => verifyCall.result = Boolean(FALSE)

\* C5: for a triple that verifies, replacing entry i of the signature with
\* a value whose hash is not entry i of side bit_i of the public key makes
\* verify return false; verify returns true only if the comparison at every
\* position succeeds.
C5_TamperDetected ==
  verifyCall # NoCall =>
    LET publicKeyRaw == decodeKey(instance, verifyCall.publicKey)
        signatureRaw == decodeSignature(instance, verifyCall.signature)
        target(i) == publicKeyRaw.items[DigestBit(verifyCall.message, i) + 1].items[i + 1]
    IN /\ (/\ verifyCall.input = "tampered"
           /\ hash(instance, verifyCall.block, instance.hashEncoding)
                # target(verifyCall.position))
          => verifyCall.result = Boolean(FALSE)
       /\ verifyCall.result = Boolean(TRUE) =>
            \A i \in Positions :
              hash(instance, signatureRaw.items[i + 1], instance.hashEncoding) = target(i)

\* An entry of a signature that verifies replaced by the block of the other
\* side of the private key, whose hash is not the expected entry of the
\* public key, and the signature rejected.
C5_Witness ==
  /\ verifyCall # NoCall
  /\ verifyCall.input = "tampered"
  /\ verifyCall.block \in BlocksOf(keyCall.privateKeyRaw)
  /\ hash(instance, verifyCall.block, instance.hashEncoding)
       # decodeKey(instance, verifyCall.publicKey)
           .items[DigestBit(verifyCall.message, verifyCall.position) + 1]
           .items[verifyCall.position + 1]
  /\ verifyCall.result = Boolean(FALSE)

\* The index with an omitted one read as 0.
IndexOrZero(index) == IF index = Undefined THEN Number(0) ELSE index

\* C7: generateKeysFromSeed is deterministic: the same seed and index under
\* the same configuration give the same private and public key, and an
\* omitted index gives the key pair of index 0.
C7_SeedDeterministic ==
  (/\ keyCall # NoCall
   /\ otherCall # NoCall
   /\ keyCall.seed = otherCall.seed
   /\ IndexOrZero(keyCall.index) = IndexOrZero(otherCall.index))
    => /\ otherCall.result = keyCall.result
       /\ otherCall.privateKeyRaw = keyCall.privateKeyRaw
       /\ otherCall.publicKeyRaw = keyCall.publicKeyRaw

\* A key pair generated with the index omitted and the same one generated
\* with index 0.
C7_Witness ==
  /\ keyCall # NoCall
  /\ otherCall # NoCall
  /\ keyCall.index = Undefined
  /\ otherCall.index = Number(0)
  /\ keyCall.result.type = "keys"
  /\ otherCall.result = keyCall.result

\* The slots of a call of generateKeysFromSeed: index, side letter, position.
SlotsOf(call) ==
  {<<IndexOrZero(call.index), side, i>> : side \in {97, 98}, i \in Positions}

\* The derivation input of a slot: the text hashed into its block.
DerivationInput(seed, slot) == SeedLabel(SideSeed(seed, slot[1], slot[2]), slot[3])

\* The block generateKeysFromSeed derived for a slot of a call.
DerivedBlock(call, slot) == call.privateKeyRaw.items[slot[2] - 96].items[slot[3] + 1]

\* The derivation inputs of a set of slots.
DerivationInputs(seed, slots) == {DerivationInput(seed, slot) : slot \in slots}

\* The digest is injective on a set of inputs: as many digests as inputs.
DigestInjective(inputs) ==
  Cardinality({MessageDigest(String(input)) : input \in inputs}) = Cardinality(inputs)

\* C10: the derivation input is distinct for distinct (index, side,
\* position): as many inputs as slots; with a hash injective on these
\* inputs the derived blocks of distinct slots are distinct, as many blocks
\* as slots, and two different indices with the same seed give different
\* key pairs.
C10_DerivationInputsDistinct ==
  (keyCall # NoCall /\ otherCall # NoCall) =>
    LET slots == SlotsOf(keyCall) \cup SlotsOf(otherCall)
        inputs == DerivationInputs(keyCall.seed, slots)
        callOf(slot) == IF slot \in SlotsOf(keyCall) THEN keyCall ELSE otherCall
    IN /\ Cardinality(inputs) = Cardinality(slots)
       /\ DigestInjective(inputs) =>
            /\ Cardinality({DerivedBlock(callOf(slot), slot) : slot \in slots})
                 = Cardinality(slots)
            /\ IndexOrZero(keyCall.index) # IndexOrZero(otherCall.index) =>
                 /\ keyCall.privateKeyRaw # otherCall.privateKeyRaw
                 /\ keyCall.result.type = "keys" => keyCall.result # otherCall.result

\* Two key pairs derived from one seed with different indices, the digest
\* injective on all their derivation inputs.
C10_Witness ==
  /\ keyCall # NoCall
  /\ otherCall # NoCall
  /\ IndexOrZero(keyCall.index) # IndexOrZero(otherCall.index)
  /\ keyCall.result.type = "keys"
  /\ DigestInjective(DerivationInputs(keyCall.seed,
                                      SlotsOf(keyCall) \cup SlotsOf(otherCall)))
  /\ keyCall.result # otherCall.result

=============================================================================
